---- MODULE Spec2Model ----
(***************************************************************************)
(* PR status reconciliation engine of the review bot: GitHub webhook       *)
(* events are mapped onto emoji reactions of the Slack message(s) that     *)
(* announce a pull request, backed by one cache record per PR.             *)
(*                                                                         *)
(* A webhook handler is an async function.  Between two awaits that wait   *)
(* for network I/O it runs without interruption (an await of a promise     *)
(* that is already resolved only yields to the microtask queue, on which   *)
(* no other handler can be waiting), so one step of the model is the code  *)
(* from one answer of the Slack API up to the next remote call.            *)
(***************************************************************************)
EXTENDS Integers, Sequences, FiniteSets, TLC

\* ------------------------------------------------------------------ bounds
MaxEvents == 3      \* webhook deliveries in one behaviour (free delivery)
MaxFaults == 1      \* genuine remote failures in one behaviour
MaxLen == 3         \* length of the review sequence that is replayed
MaxOthers == 1      \* reactions placed on the messages by other Slack users
MaxTicks == 4       \* half retention windows that pass in one behaviour
MaxLocations == 2   \* message locations of a record that is stored and read back

\* ------------------------------------------------------- program constants
MERGED == "merged"
APPROVED == "white_check_mark"
CLOSED == "x"
COMMENTED == "speech_balloon"
READY_TO_MERGE == "rocket"
PARTIAL_APPROVAL == "one"
NEEDS_REVIEW == "warning"

Labels == {MERGED, APPROVED, CLOSED, COMMENTED, READY_TO_MERGE, PARTIAL_APPROVAL, NEEDS_REVIEW}

\* retention of a cache record (stdTTL of the NodeCache)
THREE_DAYS_IN_SECONDS == 259200

\* repositories whose PRs need two approvals (TWO_APPROVAL_REPOS_LIST)
TWO_APPROVAL_REPOS == {"org/strict"}

\* ------------------------------------------------------------ input domains
Procs == {1, 2}                       \* concurrently running webhook requests
Reviewers == {"alice", "bob"}
Channels == {"CX", "CY"}
Teams == {"web", "ops"}
\* the pull requests events are about: repository id, name and PR number
PullRequests == {[repoId |-> 1, repoFullName |-> "org/app", number |-> 7],
                 [repoId |-> 2, repoFullName |-> "org/strict", number |-> 7]}

Absent == [absent |-> TRUE]           \* undefined / null

Range(s) == {s[i] : i \in 1..Len(s)}

\* ------------------------------------------------------------ pure helpers
\* (mutant) the two numbers are joined without a separator
prMsgKeyJoined(pr) == ToString(pr.repoId) \o ToString(pr.number)

\* getPrMetaData: `${data.repository.id}:${data.pull_request.number}`
prMsgKey(pr) == ToString(pr.repoId) \o ":" \o ToString(pr.number)

Keys == {prMsgKey(pr) : pr \in PullRequests}

\* GithubTeamToSlackChannel table read by getSlackChannelsByGithubTeams
TeamChannelRows == {<<"web", "CX">>, <<"ops", "CY">>}

\* Array.from(set): the elements of a Set, each once, as an array
RECURSIVE ArrayFrom(_)
ArrayFrom(S) ==
    IF S = {} THEN <<>>
    ELSE LET x == CHOOSE y \in S : TRUE IN <<x>> \o ArrayFrom(S \ {x})

\* new Set(array)
NewSet(arr) == Range(arr)

\* SELECT DISTINCT slack_channel ... WHERE github_team IN (teams)
getSlackChannelsByGithubTeams(teams) ==
    IF teams = {} THEN <<>>
    ELSE ArrayFrom({row[2] : row \in {r \in TeamChannelRows : r[1] \in teams}})

\* (mutant) one approval more than required is asked for
isPrReadyToMergeAbove(repoFullName, approvals, changesRequested) ==
    IF Cardinality(changesRequested) > 0 THEN FALSE
    ELSE LET requiredApprovals == IF repoFullName \in TWO_APPROVAL_REPOS THEN 2 ELSE 1
         IN Cardinality(approvals) > requiredApprovals

\* (mutant) open change requests do not hold a PR back
isPrReadyToMergeDespiteChanges(repoFullName, approvals, changesRequested) ==
    LET requiredApprovals == IF repoFullName \in TWO_APPROVAL_REPOS THEN 2 ELSE 1
    IN Cardinality(approvals) >= requiredApprovals

isPrReadyToMerge(repoFullName, approvals, changesRequested) ==
    IF Cardinality(changesRequested) > 0 THEN FALSE
    ELSE LET requiredApprovals == IF repoFullName \in TWO_APPROVAL_REPOS THEN 2 ELSE 1
         IN Cardinality(approvals) >= requiredApprovals

\* getPrStatus: the status line of a PR
getPrStatus(repoFullName, approvals, changesRequested) ==
    IF Cardinality(changesRequested) > 0 THEN "Changes Requested"
    ELSE IF isPrReadyToMerge(repoFullName, approvals, changesRequested) THEN "Ready to Merge"
    ELSE IF Cardinality(approvals) > 0
         THEN LET requiredApprovals == IF repoFullName \in TWO_APPROVAL_REPOS THEN 2 ELSE 1
              IN "Approved (" \o ToString(Cardinality(approvals)) \o "/"
                     \o ToString(requiredApprovals) \o ")"
    ELSE "Open"

\* ------------------------------------------------------------ message cache
\* (mutant) the reactions mirror is not written to the stored value
StorageValueWithoutMirror(value) ==
    [slackMessages |-> value.slackMessages,
     repoFullName |-> value.repoFullName,
     approvals |-> ArrayFrom(value.approvals),
     changesRequested |-> ArrayFrom(value.changesRequested),
     botReactions |-> <<>>]

\* PrSlackMessageCache.set: Sets are stored as arrays
StorageValue(value) ==
    [slackMessages |-> value.slackMessages,
     repoFullName |-> value.repoFullName,
     approvals |-> ArrayFrom(value.approvals),
     changesRequested |-> ArrayFrom(value.changesRequested),
     botReactions |-> ArrayFrom(value.botReactions)]

CacheSet(c, key, value) == [c EXCEPT ![key] = StorageValue(value)]

\* (mutant) a key that was never stored reads as an empty record
CacheGetOrEmpty(c, key) ==
    IF c[key] = Absent
    THEN [slackMessages |-> <<>>, repoFullName |-> "", approvals |-> {},
          changesRequested |-> {}, botReactions |-> {}]
    ELSE [slackMessages |-> c[key].slackMessages,
          repoFullName |-> c[key].repoFullName,
          approvals |-> NewSet(c[key].approvals),
          changesRequested |-> NewSet(c[key].changesRequested),
          botReactions |-> NewSet(c[key].botReactions)]

\* PrSlackMessageCache.get: arrays are turned back into Sets
CacheGet(c, key) ==
    IF c[key] = Absent THEN Absent
    ELSE [slackMessages |-> c[key].slackMessages,
          repoFullName |-> c[key].repoFullName,
          approvals |-> NewSet(c[key].approvals),
          changesRequested |-> NewSet(c[key].changesRequested),
          botReactions |-> NewSet(c[key].botReactions)]

CacheDelete(c, key) == [c EXCEPT ![key] = Absent]

\* ------------------------------------------------------------------- state
VARIABLES
    cache,      \* messageCache: key -> stored record, or Absent
    msgs,       \* Slack: posted messages, ts = index; [channel, key, reactions of the
                \* bot, reactions of others]
    pc,         \* per request: "idle", "posting", "reacting", "done" ("raised": it threw)
    ev,         \* per request: the webhook event being handled
    prInfo,     \* per request: the handler's local prInfo (Absent: not found)
    ops,        \* per request: what is left of the handler, head = awaited call
    pending,    \* per request: remote calls of the awaited fan-out not answered
    results,    \* per request: answers so far of the awaited fan-out
    order,      \* per request: number of the delivery it handles
    calls,      \* per request: remote calls issued by the current handler
    writes,     \* per request: cache writes (set / delete) of the current handler
    log,        \* per request: the add / remove operations it has completed
    delivered,  \* webhook deliveries so far
    faults,     \* genuine remote failures so far
    closedFor,  \* key -> a closed event of a tracked PR was handled, no review request since
    todo,       \* key -> scripted events still to deliver, in order
    watched,    \* the pull requests the source platform sends events about
    engineAdded,\* key -> labels of which an add was answered ok / already_reacted by
                \* every location
    seen,       \* per request: the record its handler read from the cache
    owed,       \* per request: the add / remove operations that failed in the handler
                \* of the delivery before it, when that was for the same key
    locks,      \* utils.ts `locks`: key -> the Mutex created for it (0: none yet)
    mutexes,    \* the Mutex objects created so far: [locked, queue of waiting tasks]
    task,       \* per task calling withPrLock: [pc, key, mutex]
    outcome,    \* per task: how fn of its last withPrLock call settled
    query,      \* a status query: repository, review sets and the answers given
    clock,      \* seconds since the cache was constructed
    expires,    \* key -> the second at which the stored record expires
    lastSet,    \* key -> the second of the last set since the last delete (-1: none)
    got         \* the last read of the cache: [op, key, at, written, value], where
                \* `written` is lastSet of the key when it was read

vars == <<cache, msgs, pc, ev, prInfo, ops, pending, results, order, calls, writes,
          log, delivered, faults, closedFor, todo, watched, owed, seen, engineAdded,
          locks, mutexes, task, outcome, query, clock, expires, lastSet, got>>

\* the state of the webhook handlers, and the state the lock and the status
\* functions work on
engine == <<cache, msgs, pc, ev, prInfo, ops, pending, results, order, calls, writes,
            log, delivered, faults, closedFor, todo, watched, owed, seen, engineAdded>>
timing == <<clock, expires, lastSet, got>>
apart == <<locks, mutexes, task, outcome, query, timing>>
untimed == <<msgs, pc, ev, prInfo, ops, pending, results, order, calls, writes,
             log, delivered, faults, closedFor, todo, watched, owed, seen, engineAdded,
             locks, mutexes, task, outcome, query>>

\* ------------------------------------------------------------------ events
NoEvent == [kind |-> "none"]

PullRequestEvent(pr, action, merged, teams) ==
    [kind |-> "pull_request", pr |-> pr, action |-> action, merged |-> merged,
     teams |-> teams, state |-> "", reviewer |-> ""]

PullRequestReviewEvent(pr, state, reviewer) ==
    [kind |-> "pull_request_review", pr |-> pr, action |-> "submitted", merged |-> FALSE,
     teams |-> {}, state |-> state, reviewer |-> reviewer]

PullRequestReviewCommentEvent(pr) ==
    [kind |-> "pull_request_review_comment", pr |-> pr, action |-> "created",
     merged |-> FALSE, teams |-> {}, state |-> "", reviewer |-> ""]

ReviewRequested(pr) == {PullRequestEvent(pr, "review_requested", FALSE, t) : t \in SUBSET Teams}

ReviewEvents(pr) ==
    {PullRequestReviewEvent(pr, s, r) :
        s \in {"approved", "changes_requested", "commented"}, r \in Reviewers}

Events(pr) ==
    ReviewRequested(pr)
    \cup {PullRequestEvent(pr, "synchronize", FALSE, {}),
          PullRequestEvent(pr, "closed", TRUE, {}),
          PullRequestEvent(pr, "closed", FALSE, {})}
    \cup ReviewEvents(pr)
    \cup {PullRequestReviewCommentEvent(pr)}

\* ------------------------------------------------- the handlers as programs
Op(kind, label) == [kind |-> kind, label |-> label, channels |-> <<>>]
Add(label) == Op("add", label)
Remove(label) == Op("remove", label)
Post(channels) == [kind |-> "post", label |-> "", channels |-> channels]
Set == Op("set", "")
Delete == Op("delete", "")

Busy(p) == pc[p] \in {"posting", "reacting"}

NoHandler(info) == [prInfo |-> info, ops |-> <<>>]

\* the calls of handlePrEvent for synchronize, closed & merged, closed unmerged
\* (mutant) new commits leave the approved reaction in place
SynchronizeOpsKeepApproved == <<Remove(READY_TO_MERGE), Remove(NEEDS_REVIEW), Set>>

\* (mutant) new commits leave the needs-review reaction in place
SynchronizeOpsKeepWarning == <<Remove(APPROVED), Remove(READY_TO_MERGE), Set>>

SynchronizeOps == <<Remove(APPROVED), Remove(READY_TO_MERGE), Remove(NEEDS_REVIEW), Set>>

\* (mutant) the ready-to-merge reaction is left on a merged PR
MergedOpsKeepReady ==
    <<Add(APPROVED), Add(MERGED), Remove(NEEDS_REVIEW), Remove(COMMENTED), Delete>>

MergedOps ==
    <<Add(APPROVED), Add(MERGED), Remove(READY_TO_MERGE), Remove(NEEDS_REVIEW),
      Remove(COMMENTED), Delete>>

\* (mutant) the approved reaction is left on a PR closed without merging
ClosedOpsKeepApproved ==
    <<Add(CLOSED), Remove(READY_TO_MERGE), Remove(NEEDS_REVIEW), Remove(COMMENTED), Delete>>

ClosedOps ==
    <<Add(CLOSED), Remove(APPROVED), Remove(READY_TO_MERGE), Remove(NEEDS_REVIEW),
      Remove(COMMENTED), Delete>>

\* (mutant) an approval does not withdraw the reviewer's change request
ApproveKeepsChangeRequest(info, reviewer) ==
    [info EXCEPT !.approvals = @ \cup {reviewer}]

\* handlePrReviewEvent, "approved": the reviewer's sets
Approve(info, reviewer) ==
    [info EXCEPT !.changesRequested = @ \ {reviewer}, !.approvals = @ \cup {reviewer}]

\* (mutant) a change request repeated by the same reviewer withdraws it
RequestChangesToggles(info, reviewer) ==
    IF reviewer \in info.changesRequested
    THEN [info EXCEPT !.changesRequested = @ \ {reviewer}]
    ELSE [info EXCEPT !.approvals = @ \ {reviewer}, !.changesRequested = @ \cup {reviewer}]

\* handlePrReviewEvent, "changes_requested": the reviewer's sets
RequestChanges(info, reviewer) ==
    [info EXCEPT !.approvals = @ \ {reviewer}, !.changesRequested = @ \cup {reviewer}]

\* (mutant) a review request is announced again in the channels already tracked
handlePrEventReannounces(e, info) ==
    IF e.action = "review_requested" THEN
        LET allChannelIds == getSlackChannelsByGithubTeams(e.teams)
        IN IF Len(allChannelIds) > 0
           THEN [prInfo |-> info, ops |-> <<Post(allChannelIds)>>]
           ELSE NoHandler(info)
    ELSE IF info = Absent THEN NoHandler(info)
    ELSE IF e.action = "synchronize" THEN
        [prInfo |-> [info EXCEPT !.approvals = {}, !.changesRequested = {}],
         ops |-> SynchronizeOps]
    ELSE IF e.action = "closed" /\ e.merged THEN [prInfo |-> info, ops |-> MergedOps]
    ELSE IF e.action = "closed" /\ ~e.merged THEN [prInfo |-> info, ops |-> ClosedOps]
    ELSE NoHandler(info)

\* handlePrEvent: the local prInfo after the synchronous prefix, and the calls to make
handlePrEvent(e, info) ==
    IF e.action = "review_requested" THEN
        LET allChannelIds == getSlackChannelsByGithubTeams(e.teams)
            existingChannels ==
                IF info = Absent THEN {}
                ELSE {info.slackMessages[i].channel : i \in 1..Len(info.slackMessages)}
            channelsToNotify == SelectSeq(allChannelIds, LAMBDA id : id \notin existingChannels)
        IN IF Len(allChannelIds) > 0 /\ Len(channelsToNotify) > 0
           THEN [prInfo |-> info, ops |-> <<Post(channelsToNotify)>>]
           ELSE NoHandler(info)
    ELSE IF info = Absent THEN NoHandler(info)
    ELSE IF e.action = "synchronize" THEN
        [prInfo |-> [info EXCEPT !.approvals = {}, !.changesRequested = {}],
         ops |-> SynchronizeOps]
    ELSE IF e.action = "closed" /\ e.merged THEN [prInfo |-> info, ops |-> MergedOps]
    ELSE IF e.action = "closed" /\ ~e.merged THEN [prInfo |-> info, ops |-> ClosedOps]
    ELSE NoHandler(info)

\* (mutant) an inline comment also withdraws the ready-to-merge reaction
handlePrReviewCommentUnready(e, info) ==
    IF info = Absent THEN NoHandler(info)
    ELSE [prInfo |-> info, ops |-> <<Add(COMMENTED), Remove(READY_TO_MERGE)>>]

handlePrReviewComment(e, info) ==
    IF info = Absent THEN NoHandler(info)
    ELSE [prInfo |-> info, ops |-> <<Add(COMMENTED)>>]

\* (mutant) a review left as a comment adds the commented reaction
handlePrReviewEventCommentReacts(e, info) ==
    IF info = Absent THEN NoHandler(info)
    ELSE IF e.state = "approved" THEN
        LET mine == Approve(info, e.reviewer)
            isReadyToMerge ==
                isPrReadyToMerge(mine.repoFullName, mine.approvals, mine.changesRequested)
        IN [prInfo |-> mine,
            ops |-> <<Add(APPROVED), Remove(COMMENTED), Remove(NEEDS_REVIEW)>>
                    \o (IF isReadyToMerge
                        THEN <<Remove(PARTIAL_APPROVAL), Add(READY_TO_MERGE)>>
                        ELSE IF Cardinality(mine.approvals) > 0 THEN <<Add(PARTIAL_APPROVAL)>>
                        ELSE <<>>)
                    \o <<Set>>]
    ELSE IF e.state = "changes_requested" THEN
        [prInfo |-> RequestChanges(info, e.reviewer),
         ops |-> <<Add(NEEDS_REVIEW), Remove(READY_TO_MERGE), Remove(APPROVED), Set>>]
    ELSE [prInfo |-> info, ops |-> <<Add(COMMENTED), Set>>]

handlePrReviewEvent(e, info) ==
    IF info = Absent THEN NoHandler(info)
    ELSE IF e.state = "approved" THEN
        LET mine == Approve(info, e.reviewer)
            isReadyToMerge ==
                isPrReadyToMerge(mine.repoFullName, mine.approvals, mine.changesRequested)
        IN [prInfo |-> mine,
            ops |-> <<Add(APPROVED), Remove(COMMENTED), Remove(NEEDS_REVIEW)>>
                    \o (IF isReadyToMerge
                        THEN <<Remove(PARTIAL_APPROVAL), Add(READY_TO_MERGE)>>
                        ELSE IF Cardinality(mine.approvals) > 0 THEN <<Add(PARTIAL_APPROVAL)>>
                        ELSE <<>>)
                    \o <<Set>>]
    ELSE IF e.state = "changes_requested" THEN
        [prInfo |-> RequestChanges(info, e.reviewer),
         ops |-> <<Add(NEEDS_REVIEW), Remove(READY_TO_MERGE), Remove(APPROVED), Set>>]
    ELSE [prInfo |-> info, ops |-> <<Set>>]

\* app.post('/github-webhook'): the handler of an event, started on the record it reads
Route(e, c) ==
    LET info == CacheGet(c, prMsgKey(e.pr))
    IN IF e.kind = "pull_request" THEN handlePrEvent(e, info)
       ELSE IF e.kind = "pull_request_review_comment" THEN handlePrReviewComment(e, info)
       ELSE handlePrReviewEvent(e, info)

\* ------------------------------------------------------ the reaction client
\* (mutant) already_reacted / not_reacted are reported as failures
SuccessOnlyOk(kind, answer) == answer = "ok"

\* what one location's call returns to the fan-out: the try / catch around
\* slackClient.reactions.add / remove and chat.postMessage
Success(kind, answer) ==
    \/ answer = "ok"
    \/ kind = "add" /\ answer = "already_reacted"
    \/ kind = "remove" /\ answer = "not_reacted"

Result(kind, answer, channel, ts) ==
    [success |-> Success(kind, answer), answer |-> answer, channel |-> channel, ts |-> ts]

\* (mutant) results.some instead of results.every
SomeSucceeded(res) == \E r \in res : r.success

\* results.every(result => result.status === 'fulfilled' && result.value.success)
AllSucceeded(res) == \A r \in res : r.success

\* (mutant) the mirror is updated whatever the locations answered
SettleUnchecked(info, op, res, c, key) ==
    LET next == [info EXCEPT !.botReactions =
                     IF op.kind = "add" THEN @ \cup {op.label} ELSE @ \ {op.label}]
    IN [prInfo |-> next, cache |-> CacheSet(c, key, next), wrote |-> TRUE, raised |-> FALSE]

\* (mutant) a failed location is raised to the caller
SettleOrThrow(info, op, res, c, key) ==
    IF AllSucceeded(res)
    THEN LET next == [info EXCEPT !.botReactions =
                          IF op.kind = "add" THEN @ \cup {op.label} ELSE @ \ {op.label}]
         IN [prInfo |-> next, cache |-> CacheSet(c, key, next), wrote |-> TRUE,
             raised |-> FALSE]
    ELSE [prInfo |-> info, cache |-> c, wrote |-> FALSE, raised |-> TRUE]

\* the end of addSlackReaction / removeSlackReaction, once every location has answered:
\* Promise.allSettled does not reject, and the function returns in either branch
Settle(info, op, res, c, key) ==
    IF AllSucceeded(res)
    THEN LET next == [info EXCEPT !.botReactions =
                          IF op.kind = "add" THEN @ \cup {op.label} ELSE @ \ {op.label}]
         IN [prInfo |-> next, cache |-> CacheSet(c, key, next), wrote |-> TRUE,
             raised |-> FALSE]
    ELSE [prInfo |-> info, cache |-> c, wrote |-> FALSE, raised |-> FALSE]

\* (mutant) the mirror is not consulted before calling Slack
SkipsNothing(info, op) == FALSE

\* the guard that opens addSlackReaction / removeSlackReaction
Skips(info, op) ==
    IF op.kind = "add" THEN op.label \in info.botReactions
    ELSE op.label \notin info.botReactions

\* record of one completed add / remove: the answers, the mirror before and after,
\* and whether messageCache.set was called
LogEntry(op, res, s, before) ==
    [kind |-> op.kind, label |-> op.label, results |-> res, wrote |-> s.wrote,
     before |-> before, after |-> s.prInfo.botReactions]

\* The handler runs on from `todoOps` until it has to wait for the Slack API, or ends.
RECURSIVE RunOps(_, _, _, _, _, _)
RunOps(key, info, todoOps, c, w, lg) ==
    IF todoOps = <<>> THEN [prInfo |-> info, ops |-> <<>>, cache |-> c, writes |-> w, log |-> lg]
    ELSE LET op == Head(todoOps) IN
         IF op.kind = "set" THEN RunOps(key, info, Tail(todoOps), CacheSet(c, key, info), w + 1, lg)
         ELSE IF op.kind = "delete" THEN RunOps(key, info, Tail(todoOps), CacheDelete(c, key), w + 1, lg)
         ELSE IF op.kind = "post" THEN
             [prInfo |-> info, ops |-> todoOps, cache |-> c, writes |-> w, log |-> lg]
         ELSE IF Skips(info, op) THEN RunOps(key, info, Tail(todoOps), c, w, lg)
         ELSE IF info.slackMessages = <<>> THEN
             LET s == Settle(info, op, {}, c, key)
             IN RunOps(key, s.prInfo, Tail(todoOps), s.cache, w,
                       Append(lg, LogEntry(op, {}, s, info.botReactions)))
         ELSE [prInfo |-> info, ops |-> todoOps, cache |-> c, writes |-> w, log |-> lg]

\* (mutant) the record is stored also when no post succeeded
postPrNotificationAnyway(channelIds, res, key, repoFullName, c) ==
    LET won(ch) == \E r \in res : r.channel = ch /\ r.success
        tsOf(ch) == (CHOOSE r \in res : r.channel = ch /\ r.success).ts
        okChannels == SelectSeq(channelIds, won)
        successfulPosts == [i \in 1..Len(okChannels) |->
                               [channel |-> okChannels[i], ts |-> tsOf(okChannels[i])]]
        newPrInfo == [slackMessages |-> successfulPosts, repoFullName |-> repoFullName,
                      approvals |-> {}, changesRequested |-> {}, botReactions |-> {}]
    IN [newPrInfo |-> newPrInfo, cache |-> CacheSet(c, key, newPrInfo), writes |-> 1]

\* postPrNotification, once every chat.postMessage has answered
postPrNotification(channelIds, res, key, repoFullName, c) ==
    LET won(ch) == \E r \in res : r.channel = ch /\ r.success
        tsOf(ch) == (CHOOSE r \in res : r.channel = ch /\ r.success).ts
        okChannels == SelectSeq(channelIds, won)
        successfulPosts == [i \in 1..Len(okChannels) |->
                               [channel |-> okChannels[i], ts |-> tsOf(okChannels[i])]]
        newPrInfo == [slackMessages |-> successfulPosts, repoFullName |-> repoFullName,
                      approvals |-> {}, changesRequested |-> {}, botReactions |-> {}]
    IN IF Len(successfulPosts) = 0 THEN [newPrInfo |-> Absent, cache |-> c, writes |-> 0]
       ELSE [newPrInfo |-> newPrInfo, cache |-> CacheSet(c, key, newPrInfo), writes |-> 1]

\* (mutant) the record made by postPrNotification replaces the tracked one
AfterPostReplaces(info, posted, key) ==
    IF info # Absent /\ posted.newPrInfo # Absent
    THEN [prInfo |-> posted.newPrInfo, cache |-> posted.cache, writes |-> posted.writes]
    ELSE [prInfo |-> info, cache |-> posted.cache, writes |-> posted.writes]

\* handlePrEvent after `await postPrNotification(...)`
AfterPost(info, posted, key) ==
    IF info # Absent /\ posted.newPrInfo # Absent
    THEN LET merged == [info EXCEPT !.slackMessages = @ \o posted.newPrInfo.slackMessages]
         IN [prInfo |-> merged, cache |-> CacheSet(posted.cache, key, merged),
             writes |-> posted.writes + 1]
    ELSE [prInfo |-> info, cache |-> posted.cache, writes |-> posted.writes]

\* --------------------------------------------------------------- the steps
IsClosed(e) == e.kind = "pull_request" /\ e.action = "closed"
IsReviewRequested(e) == e.kind = "pull_request" /\ e.action = "review_requested"

\* (mutant) a reaction is sent to the first location only
AwaitedFirst(r) ==
    IF r.ops = <<>> THEN {}
    ELSE IF Head(r.ops).kind = "post" THEN Range(Head(r.ops).channels)
    ELSE IF r.prInfo.slackMessages = <<>> THEN {} ELSE {1}

\* what the awaited call of a suspended handler waits for
Awaited(r) ==
    IF r.ops = <<>> THEN {}
    ELSE IF Head(r.ops).kind = "post" THEN Range(Head(r.ops).channels)
    ELSE 1..Len(r.prInfo.slackMessages)

\* the labels of the adds in `lg` that every location answered ok or already_reacted
FullyAdded(lg) ==
    {entry.label : entry \in {en \in Range(lg) :
        /\ en.kind = "add"
        /\ \A r \in en.results : r.answer \in {"ok", "already_reacted"}}}

\* Request p goes on with the handler state r: it is suspended on the next remote
\* call, whose requests are all sent at once, or it has returned.
Proceed(p, e, r) ==
    LET key == prMsgKey(e.pr) IN
    /\ cache' = r.cache
    /\ prInfo' = [prInfo EXCEPT ![p] = r.prInfo]
    /\ ops' = [ops EXCEPT ![p] = r.ops]
    /\ pc' = [pc EXCEPT ![p] = IF r.ops = <<>> THEN "done"
                               ELSE IF Head(r.ops).kind = "post" THEN "posting"
                               ELSE "reacting"]
    /\ pending' = [pending EXCEPT ![p] = Awaited(r)]
    /\ results' = [results EXCEPT ![p] = {}]
    /\ calls' = [calls EXCEPT ![p] = r.calls + Cardinality(Awaited(r))]
    /\ writes' = [writes EXCEPT ![p] = r.writes]
    /\ log' = [log EXCEPT ![p] = r.log]
    /\ engineAdded' = [engineAdded EXCEPT ![key] = @ \cup FullyAdded(r.log)]
    /\ closedFor' = [closedFor EXCEPT ![key] =
           IF IsReviewRequested(e) THEN FALSE
           ELSE IF IsClosed(e) /\ r.ops = <<>> /\ r.prInfo # Absent
                THEN ~\E q \in Procs \ {p} : Busy(q) /\ prMsgKey(ev[q].pr) = key
                                              /\ IsReviewRequested(ev[q])
                ELSE @]

\* the operations that failed for a genuine reason in the handler of the last
\* delivery, if that was for `key` and has returned
Owed(key) ==
    {[kind |-> entry.kind, label |-> entry.label] :
        entry \in UNION {{en \in Range(log[q]) : \E r \in en.results : ~r.success} :
                            q \in {h \in Procs : /\ pc[h] = "done"
                                                 /\ order[h] = delivered
                                                 /\ prMsgKey(ev[h].pr) = key}}}

\* An exception leaves the handler of request p: nothing after the call is run.
Abort(p) ==
    /\ pc' = [pc EXCEPT ![p] = "raised"]
    /\ ops' = [ops EXCEPT ![p] = <<>>]
    /\ pending' = [pending EXCEPT ![p] = {}]
    /\ results' = [results EXCEPT ![p] = {}]
    /\ UNCHANGED <<cache, prInfo, calls, writes, log, closedFor, engineAdded>>

\* A webhook request is accepted and its handler runs up to its first remote call.
Start(p, e) ==
    LET key == prMsgKey(e.pr)
        h == Route(e, cache)
        r == RunOps(key, h.prInfo, h.ops, cache, 0, <<>>)
    IN /\ ~Busy(p)
       /\ \A q \in Procs : q < p => Busy(q)      \* request slots are interchangeable
       /\ ev' = [ev EXCEPT ![p] = e]
       /\ delivered' = delivered + 1
       /\ order' = [order EXCEPT ![p] = delivered + 1]
       /\ owed' = [owed EXCEPT ![p] = Owed(key)]
       /\ seen' = [seen EXCEPT ![p] = CacheGet(cache, key)]
       /\ Proceed(p, e, [r EXCEPT !.ops = r.ops] @@ [calls |-> 0])
       /\ UNCHANGED <<msgs, faults, watched, apart>>

Deliver(p) ==
    /\ delivered < MaxEvents
    /\ \E pr \in watched : \E e \in Events(pr) : Start(p, e)
    /\ UNCHANGED todo

\* Scripted delivery is sequential: the next event is delivered once the one before
\* it has been handled, the script of one PR after that of the other.
DeliverNext(p) ==
    \E pr \in PullRequests :
        LET key == prMsgKey(pr) IN
        /\ todo[key] # <<>>
        /\ \A other \in PullRequests : other.repoId < pr.repoId => todo[prMsgKey(other)] = <<>>
        /\ \A q \in Procs : ~Busy(q)
        /\ Start(p, Head(todo[key]))
        /\ todo' = [todo EXCEPT ![key] = Tail(@)]

\* Scripted delivery to several PRs: the events of one PR one after the other, the
\* PRs side by side.
DeliverEach(p) ==
    \E pr \in PullRequests :
        LET key == prMsgKey(pr) IN
        /\ todo[key] # <<>>
        /\ \A q \in Procs : Busy(q) => prMsgKey(ev[q].pr) # key
        /\ Start(p, Head(todo[key]))
        /\ todo' = [todo EXCEPT ![key] = Tail(@)]

\* The answers of one fan-out are complete: the handler resumes.
Resume(p, res) ==
    LET e == ev[p]
        key == prMsgKey(e.pr)
        op == Head(ops[p])
    IN IF op.kind = "post"
       THEN LET posted == postPrNotification(op.channels, res, key, e.pr.repoFullName, cache)
                a == AfterPost(prInfo[p], posted, key)
            IN Proceed(p, e, [prInfo |-> a.prInfo, ops |-> <<>>, cache |-> a.cache,
                              writes |-> writes[p] + a.writes, log |-> log[p],
                              calls |-> calls[p]])
       ELSE LET s == Settle(prInfo[p], op, res, cache, key)
                r == RunOps(key, s.prInfo, Tail(ops[p]), s.cache, writes[p],
                            Append(log[p], LogEntry(op, res, s, prInfo[p].botReactions)))
            IN IF s.raised THEN Abort(p) ELSE Proceed(p, e, r @@ [calls |-> calls[p]])

\* One answer of the Slack API arrives at request p.
Answer(p, x, result) ==
    LET res == results[p] \cup {result} IN
    IF pending[p] = {x}
    THEN Resume(p, res)
    ELSE /\ pending' = [pending EXCEPT ![p] = @ \ {x}]
         /\ results' = [results EXCEPT ![p] = res]
         /\ UNCHANGED <<cache, pc, prInfo, ops, calls, writes, log, closedFor, engineAdded>>

\* reactions.add / reactions.remove is carried out by Slack for one location
ReactionAnswered(p, i) ==
    /\ pc[p] = "reacting" /\ i \in pending[p]
    /\ LET loc == prInfo[p].slackMessages[i]
           op == Head(ops[p])
           has == op.label \in msgs[loc.ts].reactions
           answer == IF op.kind = "add" THEN (IF has THEN "already_reacted" ELSE "ok")
                     ELSE (IF has THEN "ok" ELSE "not_reacted")
       IN /\ msgs' = [msgs EXCEPT ![loc.ts].reactions =
                         IF op.kind = "add" THEN @ \cup {op.label} ELSE @ \ {op.label}]
          /\ Answer(p, i, Result(op.kind, answer, loc.channel, loc.ts))
    /\ UNCHANGED <<ev, order, delivered, faults, todo, watched, owed, seen, apart>>

\* reactions.add / reactions.remove fails for another reason (rate limit, network)
ReactionFailed(p, i) ==
    /\ pc[p] = "reacting" /\ i \in pending[p]
    /\ faults < MaxFaults
    /\ faults' = faults + 1
    /\ LET loc == prInfo[p].slackMessages[i]
       IN Answer(p, i, Result(Head(ops[p]).kind, "error", loc.channel, loc.ts))
    /\ UNCHANGED <<msgs, ev, order, delivered, todo, watched, owed, seen, apart>>

\* chat.postMessage is carried out: the message exists, ts is its timestamp
PostAnswered(p, ch) ==
    /\ pc[p] = "posting" /\ ch \in pending[p]
    /\ msgs' = Append(msgs, [channel |-> ch, key |-> prMsgKey(ev[p].pr), reactions |-> {},
                             others |-> {}])
    /\ Answer(p, ch, Result("post", "ok", ch, Len(msgs) + 1))
    /\ UNCHANGED <<ev, order, delivered, faults, todo, watched, owed, seen, apart>>

\* reactions.add / remove answer already_reacted / not_reacted for the reactions of the
\* calling bot only: what other users place on a message is kept apart
OtherReacts(i, label) ==
    /\ i \in 1..Len(msgs) /\ label \notin msgs[i].others
    /\ Cardinality({x \in (1..Len(msgs)) \X Labels : x[2] \in msgs[x[1]].others}) < MaxOthers
    /\ msgs' = [msgs EXCEPT ![i].others = @ \cup {label}]
    /\ UNCHANGED <<cache, pc, ev, prInfo, ops, pending, results, order, calls, writes, log,
                   delivered, faults, closedFor, todo, watched, owed, seen, engineAdded, apart>>

PostFailed(p, ch) ==
    /\ pc[p] = "posting" /\ ch \in pending[p]
    /\ faults < MaxFaults
    /\ faults' = faults + 1
    /\ Answer(p, ch, Result("post", "error", ch, 0))
    /\ UNCHANGED <<msgs, ev, order, delivered, todo, watched, owed, seen, apart>>

\* ------------------------------------------------------ expiry of records
\* records that are written in the expiry runs
SampleRecords ==
    {[slackMessages |-> <<[channel |-> "CX", ts |-> 1]>>, repoFullName |-> "org/app",
      approvals |-> a, changesRequested |-> {}, botReactions |-> {}] :
        a \in {{}, {"alice"}}}

\* (mutant) the window of a record that is written again is not restarted
ExpiryKept(old, now) == IF old > now THEN old ELSE now + THREE_DAYS_IN_SECONDS

\* this.cache.set(key, storageValue) without a ttl: the record expires stdTTL
\* seconds from now, whatever its expiry was
Expiry(old, now) == now + THREE_DAYS_IN_SECONDS

\* a stored record is served until its expiry has passed
Alive(key) == cache[key] # Absent /\ ~(expires[key] < clock)

\* messageCache.set(key, value)
TimedSet(key, value) ==
    /\ cache' = CacheSet(cache, key, value)
    /\ expires' = [expires EXCEPT ![key] = Expiry(@, clock)]
    /\ lastSet' = [lastSet EXCEPT ![key] = clock]
    /\ UNCHANGED <<clock, got, untimed>>

\* messageCache.get(key) / messageCache.has(key): an expired record is dropped
\* and reads as undefined; the expiry of a live one stays as it is
TimedRead(op, key) ==
    /\ got' = [op |-> op, key |-> key, at |-> clock, written |-> lastSet[key],
               value |-> IF op = "has" THEN [present |-> Alive(key)]
                         ELSE IF Alive(key) THEN CacheGet(cache, key) ELSE Absent]
    /\ cache' = IF Alive(key) THEN cache ELSE CacheDelete(cache, key)
    /\ UNCHANGED <<clock, expires, lastSet, untimed>>

\* messageCache.delete(key)
TimedDelete(key) ==
    /\ cache' = CacheDelete(cache, key)
    /\ lastSet' = [lastSet EXCEPT ![key] = -1]
    /\ UNCHANGED <<clock, expires, got, untimed>>

\* half a retention window passes
Tick ==
    /\ clock < MaxTicks * (THREE_DAYS_IN_SECONDS \div 2)
    /\ clock' = clock + (THREE_DAYS_IN_SECONDS \div 2)
    /\ UNCHANGED <<cache, expires, lastSet, got, untimed>>

\* ------------------------------------------------------- the status query
Users == Reviewers \cup {"carol"}

\* the status line and the readiness of the queried PR are computed
AskStatus ==
    /\ query # Absent /\ ~query.asked
    /\ query' = [query EXCEPT
           !.asked = TRUE,
           !.status = getPrStatus(query.repoFullName, query.approvals, query.changesRequested),
           !.ready = isPrReadyToMerge(query.repoFullName, query.approvals,
                                      query.changesRequested)]
    /\ UNCHANGED <<engine, locks, mutexes, task, outcome, timing>>

\* ------------------------------------------------------------ the PR lock
Tasks == {1, 2, 3}                    \* callers of withPrLock

Idle == [pc |-> "idle", key |-> "", mutex |-> 0]

\* new Mutex()
NewMutex == [locked |-> FALSE, queue |-> <<>>]

\* (mutant) one mutex is shared by all keys
getMutexShared(l, ms, key) ==
    [locks |-> [l EXCEPT ![key] = 1],
     mutexes |-> IF ms = <<>> THEN <<NewMutex>> ELSE ms,
     mutex |-> 1]

\* getMutex: the Mutex of `key`, created and stored when the map has none
getMutex(l, ms, key) ==
    IF l[key] = 0
    THEN [locks |-> [l EXCEPT ![key] = Len(ms) + 1],
          mutexes |-> Append(ms, NewMutex),
          mutex |-> Len(ms) + 1]
    ELSE [locks |-> l, mutexes |-> ms, mutex |-> l[key]]

\* withPrLock(key, fn) is called by task t: mutex.runExclusive(fn) runs fn at once
\* when the mutex is free, up to the remote call fn awaits, and queues t otherwise.
withPrLock(t, key) ==
    LET g == getMutex(locks, mutexes, key)
        m == g.mutex
    IN /\ task[t].pc = "idle"
       /\ locks' = g.locks
       /\ IF g.mutexes[m].locked
          THEN /\ mutexes' = [g.mutexes EXCEPT ![m].queue = Append(@, t)]
               /\ task' = [task EXCEPT ![t] = [pc |-> "waiting", key |-> key, mutex |-> m]]
          ELSE /\ mutexes' = [g.mutexes EXCEPT ![m].locked = TRUE]
               /\ task' = [task EXCEPT ![t] = [pc |-> "running", key |-> key, mutex |-> m]]
       /\ outcome' = [outcome EXCEPT ![t] = "none"]
       /\ UNCHANGED <<engine, query, timing>>

\* (mutant) the mutex stays locked when fn rejects
SettleKeepsLockOnReject(t, how) ==
    LET m == task[t].mutex IN
    /\ task[t].pc = "running"
    /\ outcome' = [outcome EXCEPT ![t] = how]
    /\ IF how = "rejected"
       THEN /\ mutexes' = mutexes
            /\ task' = [task EXCEPT ![t] = Idle]
       ELSE IF mutexes[m].queue = <<>>
       THEN /\ mutexes' = [mutexes EXCEPT ![m].locked = FALSE]
            /\ task' = [task EXCEPT ![t] = Idle]
       ELSE /\ mutexes' = [mutexes EXCEPT ![m].queue = Tail(@)]
            /\ task' = [task EXCEPT ![t] = Idle,
                                    ![Head(mutexes[m].queue)].pc = "running"]
    /\ UNCHANGED <<engine, locks, query, timing>>

\* The promise of fn of task t settles: runExclusive releases the mutex in its
\* finally block, which passes it to the task that has waited longest, if any,
\* and the promise of withPrLock settles the way fn did.
SettleFn(t, how) ==
    LET m == task[t].mutex IN
    /\ task[t].pc = "running"
    /\ outcome' = [outcome EXCEPT ![t] = how]
    /\ IF mutexes[m].queue = <<>>
       THEN /\ mutexes' = [mutexes EXCEPT ![m].locked = FALSE]
            /\ task' = [task EXCEPT ![t] = Idle]
       ELSE /\ mutexes' = [mutexes EXCEPT ![m].queue = Tail(@)]
            /\ task' = [task EXCEPT ![t] = Idle,
                                    ![Head(mutexes[m].queue)].pc = "running"]
    /\ UNCHANGED <<engine, locks, query, timing>>

\* fn of task t returns
Release(t) == SettleFn(t, "returned")

\* fn of task t rejects
Reject(t) == SettleFn(t, "rejected")

\* The remote call that fn of task t awaits never answers: neither the Slack client
\* nor the mutex is given a timeout, so fn stays suspended.
Hang(t) ==
    /\ task[t].pc = "running"
    /\ task' = [task EXCEPT ![t].pc = "hung"]
    /\ UNCHANGED <<engine, locks, mutexes, outcome, query, timing>>

\* The HTTP response of request p has been returned: after the awaited handler of a
\* pull_request or pull_request_review_comment event has returned, or right after
\* handlePrReviewEvent was called, which the route does not await.
Responded(p) ==
    /\ ev[p] # NoEvent
    /\ \/ ev[p].kind = "pull_request_review"
       \/ pc[p] = "done"

Quiet ==
    /\ cache = [k \in Keys |-> Absent]
    /\ msgs = <<>>
    /\ pc = [p \in Procs |-> "idle"]
    /\ ev = [p \in Procs |-> NoEvent]
    /\ prInfo = [p \in Procs |-> Absent]
    /\ ops = [p \in Procs |-> <<>>]
    /\ pending = [p \in Procs |-> {}]
    /\ results = [p \in Procs |-> {}]
    /\ order = [p \in Procs |-> 0]
    /\ calls = [p \in Procs |-> 0]
    /\ writes = [p \in Procs |-> 0]
    /\ log = [p \in Procs |-> <<>>]
    /\ delivered = 0
    /\ faults = 0
    /\ closedFor = [k \in Keys |-> FALSE]
    /\ owed = [p \in Procs |-> {}]
    /\ seen = [p \in Procs |-> Absent]
    /\ engineAdded = [k \in Keys |-> {}]
    /\ locks = [k \in Keys |-> 0]
    /\ mutexes = <<>>
    /\ task = [t \in Tasks |-> Idle]
    /\ outcome = [t \in Tasks |-> "none"]
    /\ clock = 0
    /\ expires = [k \in Keys |-> 0]
    /\ lastSet = [k \in Keys |-> -1]
    /\ got = Absent

\* after construction: nothing tracked, nothing posted; events about one pull request
Init ==
    /\ Quiet
    /\ query = Absent
    /\ todo = [k \in Keys |-> <<>>]
    /\ \E pr \in PullRequests : watched = {pr}

Next ==
    \/ \E p \in Procs : Deliver(p)
    \/ \E p \in Procs : \E i \in pending[p] : ReactionAnswered(p, i)
    \/ \E p \in Procs : \E i \in pending[p] : ReactionFailed(p, i)
    \/ \E p \in Procs : \E ch \in pending[p] : PostAnswered(p, ch)
    \/ \E p \in Procs : \E ch \in pending[p] : PostFailed(p, ch)

Spec == Init /\ [][Next]_vars

\* ------------------------------------------------- scripted deliveries
NextScripted ==
    \/ \E p \in Procs : DeliverNext(p)
    \/ \E p \in Procs : \E i \in pending[p] : ReactionAnswered(p, i)
    \/ \E p \in Procs : \E i \in pending[p] : ReactionFailed(p, i)
    \/ \E p \in Procs : \E ch \in pending[p] : PostAnswered(p, ch)
    \/ \E p \in Procs : \E ch \in pending[p] : PostFailed(p, ch)

PrOnce == CHOOSE pr \in PullRequests : pr.repoFullName \notin TWO_APPROVAL_REPOS
PrTwice == CHOOSE pr \in PullRequests : pr # PrOnce

\* sequences of approved / changes-requested reviews, up to MaxLen long
RECURSIVE ReviewSeqs(_)
ReviewSeqs(n) ==
    IF n = 0 THEN {<<>>}
    ELSE LET shorter == ReviewSeqs(n - 1)
         IN shorter \cup {Append(s, [state |-> st, reviewer |-> r]) :
                             s \in shorter, st \in {"approved", "changes_requested"},
                             r \in Reviewers}

AsEvents(pr, s) == [i \in 1..Len(s) |-> PullRequestReviewEvent(pr, s[i].state, s[i].reviewer)]

\* every event delivered twice in a row
EachTwice(s) == [i \in 1..(2 * Len(s)) |-> s[(i + 1) \div 2]]

Announce(pr, teams) == PullRequestEvent(pr, "review_requested", FALSE, teams)

\* One PR is sent a review sequence once, the other the same sequence replayed.
InitReplay ==
    /\ Quiet
    /\ query = Absent
    /\ watched = {}
    /\ \E s \in ReviewSeqs(MaxLen) : \E replay \in {s \o s, EachTwice(s)} :
           todo = (prMsgKey(PrOnce) :> <<Announce(PrOnce, {"web"})>> \o AsEvents(PrOnce, s))
                  @@ (prMsgKey(PrTwice) :> <<Announce(PrTwice, {"web"})>> \o AsEvents(PrTwice, replay))

SpecReplay == InitReplay /\ [][NextScripted]_vars

\* A PR of a one-approval repository is announced, approved once, merged.
InitScenario ==
    /\ Quiet
    /\ query = Absent
    /\ watched = {}
    /\ \E teams \in (SUBSET Teams) \ {{}} : \E r \in Reviewers :
           todo = (prMsgKey(PrOnce) :> <<Announce(PrOnce, teams),
                                         PullRequestReviewEvent(PrOnce, "approved", r),
                                         PullRequestEvent(PrOnce, "closed", TRUE, {})>>)
                  @@ (prMsgKey(PrTwice) :> <<>>)

SpecScenario == InitScenario /\ [][NextScripted]_vars

ScriptsDone == (\A k \in Keys : todo[k] = <<>>) /\ (\A p \in Procs : ~Busy(p))

\* ------------------------------------------------------------------ claims
KeyOf(p) == prMsgKey(ev[p].pr)
Handling(p) == ev[p] # NoEvent
IsReview(e, state) == e.kind = "pull_request_review" /\ e.state = state
Found(p) == Handling(p) /\ prInfo[p] # Absent
Entries(p) == Range(log[p])
Failed(entry) == \E r \in entry.results : ~r.success
Stored(key, field) == NewSet(cache[key][field])

\* C1: two approvals of one tracked PR by different reviewers, delivered one right
\* after the other and both handled (in any interleaving), are both in the stored
\* approvals set.
C1_BothApprovalsStored ==
    \A p, q \in Procs :
        ( /\ pc[p] = "done" /\ pc[q] = "done"
          /\ Found(p) /\ Found(q)
          /\ IsReview(ev[p], "approved") /\ IsReview(ev[q], "approved")
          /\ KeyOf(p) = KeyOf(q)
          /\ ev[p].reviewer # ev[q].reviewer
          /\ order[q] = order[p] + 1 /\ delivered = order[q] )
        => /\ cache[KeyOf(p)] # Absent
           /\ {ev[p].reviewer, ev[q].reviewer} \subseteq Stored(KeyOf(p), "approvals")

\* C2: for every key at most one handler at a time is between its read of the
\* record and its last write or delete of it.
C2_OneHandlerPerKey ==
    \A p, q \in Procs : (p # q /\ Busy(p) /\ Busy(q)) => KeyOf(p) # KeyOf(q)

\* C3: in every reachable state the approvals and changes-requested sets of every
\* stored record are disjoint.
C3_ApprovalsChangesDisjoint ==
    \A k \in Keys :
        cache[k] # Absent => Stored(k, "approvals") \cap Stored(k, "changesRequested") = {}

\* a reviewer who had approved has requested changes, and the record holds the
\* change request
C3_Witness ==
    \E p, q \in Procs :
        /\ pc[p] = "done" /\ pc[q] = "done" /\ Found(p) /\ Found(q)
        /\ IsReview(ev[p], "approved") /\ IsReview(ev[q], "changes_requested")
        /\ ev[p].reviewer = ev[q].reviewer /\ KeyOf(p) = KeyOf(q)
        /\ order[p] < order[q]
        /\ cache[KeyOf(q)] # Absent
        /\ ev[q].reviewer \in Stored(KeyOf(q), "changesRequested")

\* C5: an add or remove with at least one location failing for a genuine reason
\* leaves the mirror as it was and makes no cache write, even if other
\* locations succeeded.
C5_PartialFailureKeepsMirror ==
    \A p \in Procs : \A entry \in Entries(p) :
        Failed(entry) => entry.after = entry.before /\ ~entry.wrote

\* one location succeeded, the other failed
C5_Witness ==
    \E p \in Procs : \E entry \in Entries(p) :
        /\ Failed(entry)
        /\ \E r \in entry.results : r.answer = "ok"

\* C6: an add (remove) that passes the mirror check and whose every location
\* answers success or already-applied (not-applied) puts the label into (takes it
\* out of) the mirror and writes the record.
C6_IdempotentAnswersAreSuccess ==
    \A p \in Procs : \A entry \in Entries(p) :
        (\A r \in entry.results :
            r.answer \in {"ok", IF entry.kind = "add" THEN "already_reacted" ELSE "not_reacted"})
        => /\ entry.wrote
           /\ entry.kind = "add" => entry.label \notin entry.before /\ entry.label \in entry.after
           /\ entry.kind = "remove" => entry.label \in entry.before /\ entry.label \notin entry.after

\* the mirror lacked the label, Slack answered already_reacted, the mirror has it now
C6_Witness ==
    \E p \in Procs : \E entry \in Entries(p) :
        /\ entry.kind = "add" /\ entry.wrote
        /\ \E r \in entry.results : r.answer = "already_reacted"
        /\ entry.label \in entry.after \ entry.before

\* C7: an add of a label that the mirror of the record it is called with contains,
\* or a remove of one it does not contain, reaches no location: while calls of an
\* add are in flight the handler's mirror lacks the label, and while calls of a
\* remove are in flight it has it.
C7_MirrorHitIssuesNoCall ==
    \A p \in Procs :
        pc[p] = "reacting" =>
            LET op == Head(ops[p]) IN
            /\ op.kind = "add" => op.label \notin prInfo[p].botReactions
            /\ op.kind = "remove" => op.label \in prInfo[p].botReactions

\* a merged PR whose mirror already held "approved": the handler added "merged"
\* but made no call for "approved"
C7_Witness ==
    \E p \in Procs :
        /\ pc[p] = "done" /\ Found(p) /\ IsClosed(ev[p]) /\ ev[p].merged
        /\ \E entry \in Entries(p) : entry.kind = "add" /\ entry.label = MERGED
        /\ ~\E entry \in Entries(p) : entry.label = APPROVED
        /\ APPROVED \in prInfo[p].botReactions

\* C8: an event other than review-requested for a key without a record makes no
\* remote call, leaves the cache as it is and returns at once.
C8_UntrackedIsNoOp ==
    [][\A p \in Procs :
          ( /\ order'[p] # order[p]
            /\ ~IsReviewRequested(ev'[p])
            /\ cache[prMsgKey(ev'[p].pr)] = Absent )
          => /\ cache' = cache
             /\ msgs' = msgs
             /\ pc'[p] = "done"
             /\ pending'[p] = {} /\ calls'[p] = 0 /\ writes'[p] = 0]_vars

C8_Witness ==
    \E p \in Procs :
        /\ pc[p] = "done" /\ Handling(p) /\ ~Found(p)
        /\ ev[p].kind = "pull_request" /\ ev[p].action = "synchronize"
        /\ calls[p] = 0 /\ cache[KeyOf(p)] = Absent

\* C9: after a closed event of a tracked PR has been handled no record exists for
\* the key until a review request comes (stated for the moments at which no
\* handler for the key is running).
C9_ClosedStaysDeleted ==
    \A k \in Keys :
        (closedFor[k] /\ ~\E p \in Procs : Busy(p) /\ KeyOf(p) = k) => cache[k] = Absent

\* C4: the approvals and changes-requested sets after a review sequence delivered
\* twice (as a whole, or event by event) equal those after the sequence
\* delivered once.
C4_ReplayIsIdempotent ==
    (ScriptsDone /\ cache[prMsgKey(PrOnce)] # Absent /\ cache[prMsgKey(PrTwice)] # Absent)
    => /\ Stored(prMsgKey(PrOnce), "approvals") = Stored(prMsgKey(PrTwice), "approvals")
       /\ Stored(prMsgKey(PrOnce), "changesRequested")
              = Stored(prMsgKey(PrTwice), "changesRequested")

\* a replayed sequence after which one reviewer approves and the other requests changes
C4_Witness ==
    /\ ScriptsDone /\ delivered > 2
    /\ cache[prMsgKey(PrOnce)] # Absent /\ cache[prMsgKey(PrTwice)] # Absent
    /\ Stored(prMsgKey(PrTwice), "approvals") # {}
    /\ Stored(prMsgKey(PrTwice), "changesRequested") # {}

ReactionsOf(key) == {msgs[i].reactions : i \in {j \in 1..Len(msgs) : msgs[j].key = key}}

\* C10: one-approval repository, no remote failure: once announced and approved
\* the message carries {approved, ready-to-merge} and the record exists; once
\* merged it carries {approved, merged} and the record is gone.
C10_AnnounceApproveMerge ==
    LET key == prMsgKey(PrOnce)
        settled == faults = 0 /\ \A p \in Procs : ~Busy(p)
    IN /\ (settled /\ delivered = 2)
          => /\ cache[key] # Absent
             /\ ReactionsOf(key) = {{APPROVED, READY_TO_MERGE}}
       /\ (settled /\ delivered = 3)
          => /\ cache[key] = Absent
             /\ ReactionsOf(key) = {{APPROVED, MERGED}}

C10_Witness ==
    /\ ScriptsDone /\ faults = 0 /\ delivered = 3
    /\ cache[prMsgKey(PrOnce)] = Absent
    /\ ReactionsOf(prMsgKey(PrOnce)) = {{APPROVED, MERGED}}
    /\ Len(msgs) = 2

IsSynchronize(e) == e.kind = "pull_request" /\ e.action = "synchronize"

\* C11: a handler of an approved, changes-requested or synchronize event in which a
\* reaction call failed for a genuine reason writes nothing to the cache: the sets
\* it computed are not committed.
C11_CommitsOnlyOnSuccess ==
    \A p \in Procs :
        ( /\ pc[p] = "done" /\ Found(p)
          /\ \/ IsReview(ev[p], "approved")
             \/ IsReview(ev[p], "changes_requested")
             \/ IsSynchronize(ev[p])
          /\ \E entry \in Entries(p) : Failed(entry) )
        => writes[p] = 0

\* C12: an add or remove that failed for a genuine reason while an event of a
\* tracked PR was handled is attempted again by the handler of the next event
\* of that PR (stated for a next event that changes neither review set, a comment,
\* so that the failed operation is still the intended one).
C12_NextEventRetries ==
    \A p \in Procs :
        ( /\ pc[p] = "done" /\ Found(p)
          /\ \/ IsReview(ev[p], "commented")
             \/ ev[p].kind = "pull_request_review_comment" )
        => \A o \in owed[p] :
               \E entry \in Entries(p) : entry.kind = o.kind /\ entry.label = o.label

\* C13: when the HTTP response of a delivery has been returned, every remote call
\* and cache write of its handler has completed.
C13_HandledBeforeResponse ==
    \A p \in Procs : Responded(p) => pc[p] = "done"

\* C14: addSlackReaction and removeSlackReaction return normally whatever the
\* remote calls answer: no handler is ever left by an exception.
C14_ReactionsNeverRaise ==
    \A p \in Procs : pc[p] # "raised"

\* a call failed for a genuine reason and the handler went on to its next operations
C14_Witness ==
    \E p \in Procs :
        /\ pc[p] = "done"
        /\ \E i \in 1..(Len(log[p]) - 1) : Failed(log[p][i])

\* ------------------------------------------------------- lock, on its own
InitLock ==
    /\ Quiet
    /\ query = Absent
    /\ todo = [k \in Keys |-> <<>>]
    /\ watched = {}

NextLock ==
    \/ \E t \in Tasks : \E k \in Keys : withPrLock(t, k)
    \/ \E t \in Tasks : Release(t)
    \/ \E t \in Tasks : Reject(t)

SpecLock == InitLock /\ [][NextLock]_vars

\* The lock with remote calls that may never answer. A promise that settles has its
\* continuation run by the event loop; nothing makes a call without an answer settle.
NextLockLive ==
    \/ \E t \in Tasks : \E k \in Keys : withPrLock(t, k)
    \/ \E t \in Tasks : Release(t)
    \/ \E t \in Tasks : Reject(t)
    \/ \E t \in Tasks : Hang(t)

SpecLockLive ==
    /\ InitLock /\ [][NextLockLive]_vars
    /\ \A t \in Tasks : WF_vars(Release(t) \/ Reject(t))

\* C15: a task that waits for a lock waits for a task that runs under the same
\* key; a task is never kept waiting by the holder of another key's lock.
C15_ExclusionIsPerKey ==
    \A t \in Tasks :
        task[t].pc = "waiting"
        => \E u \in Tasks \ {t} : task[u].pc = "running" /\ task[u].key = task[t].key

\* one task runs under each key while a third waits for one of them
C15_Witness ==
    \E t, u, w \in Tasks :
        /\ task[t].pc = "running" /\ task[u].pc = "running"
        /\ task[t].key # task[u].key
        /\ task[w].pc = "waiting" /\ task[w].key = task[t].key

\* ------------------------------------------------- two PRs side by side
NextPair ==
    \/ \E p \in Procs : DeliverEach(p)
    \/ \E p \in Procs : \E i \in pending[p] : ReactionAnswered(p, i)
    \/ \E p \in Procs : \E i \in pending[p] : ReactionFailed(p, i)
    \/ \E p \in Procs : \E ch \in pending[p] : PostAnswered(p, ch)
    \/ \E p \in Procs : \E ch \in pending[p] : PostFailed(p, ch)

\* Each of two PRs is announced and then sent one more event.
InitPair ==
    /\ Quiet
    /\ query = Absent
    /\ watched = {}
    /\ \E e1 \in Events(PrOnce) \ ReviewRequested(PrOnce) :
       \E e2 \in Events(PrTwice) \ ReviewRequested(PrTwice) :
           todo = (prMsgKey(PrOnce) :> <<Announce(PrOnce, Teams), e1>>)
                  @@ (prMsgKey(PrTwice) :> <<Announce(PrTwice, {"web"}), e2>>)

SpecPair == InitPair /\ [][NextPair]_vars

\* repository ids and PR numbers whose decimal digits run into each other
PrIds == [repoId : {1, 2, 12}, number : {7, 27}]

\* request p takes a step: it is started, or one of its calls is answered
Acts(p) == order'[p] # order[p] \/ pending'[p] # pending[p]

\* C16: a step of a handler for key k leaves the record of every other key as it
\* is and touches (posts, reacts on) messages of k only; distinct (repository id,
\* PR number) pairs have distinct keys.
C16_OtherKeysUntouched ==
    [][/\ \A p \in Procs :
            Acts(p) =>
                LET k == prMsgKey(ev'[p].pr) IN
                /\ \A other \in Keys \ {k} : cache'[other] = cache[other]
                /\ \A i \in 1..Len(msgs) : msgs'[i] # msgs[i] => msgs[i].key = k
                /\ \A i \in (Len(msgs) + 1)..Len(msgs') : msgs'[i].key = k
       /\ \A a, b \in PrIds : a # b => prMsgKey(a) # prMsgKey(b)]_vars

\* a handler of one PR has finished after a failed call while a handler of the
\* other PR, whose record exists, waits for Slack
C16_Witness ==
    \E p, q \in Procs :
        /\ pc[p] = "done" /\ \E entry \in Entries(p) : Failed(entry)
        /\ Busy(q) /\ KeyOf(q) # KeyOf(p)
        /\ cache[KeyOf(q)] # Absent /\ cache[KeyOf(p)] # Absent

\* ------------------------------------------------- status, on its own
InitStatus ==
    /\ Quiet
    /\ todo = [k \in Keys |-> <<>>]
    /\ watched = {}
    /\ query \in [repoFullName : {pr.repoFullName : pr \in PullRequests},
                  approvals : SUBSET Users, changesRequested : SUBSET Users,
                  asked : {FALSE}, status : {""}, ready : {FALSE}]

SpecStatus == InitStatus /\ [][AskStatus]_vars

\* C17: with required = 2 for a strict repository and 1 otherwise, the status is
\* ChangesRequested iff somebody requests changes, else ReadyToMerge iff there are
\* at least `required` approvals, PartiallyApproved iff there are some but fewer,
\* NoApprovals iff there are none; isPrReadyToMerge is true exactly for ReadyToMerge.
C17_ReadinessDerivation ==
    (query # Absent /\ query.asked) =>
        LET required == IF query.repoFullName \in TWO_APPROVAL_REPOS THEN 2 ELSE 1
            n == Cardinality(query.approvals)
            quiet == query.changesRequested = {}
            partial == {"Approved (" \o ToString(k) \o "/" \o ToString(required) \o ")" :
                           k \in 1..(required - 1)}
        IN /\ query.status = "Changes Requested" <=> ~quiet
           /\ query.status = "Ready to Merge" <=> (quiet /\ n >= required)
           /\ query.status \in partial <=> (quiet /\ 0 < n /\ n < required)
           /\ query.status = "Open" <=> (quiet /\ n = 0)
           /\ query.ready <=> (quiet /\ n >= required)

\* a strict repository with one approval is partially approved, not ready
C17_Witness ==
    /\ query # Absent /\ query.asked
    /\ query.repoFullName \in TWO_APPROVAL_REPOS
    /\ Cardinality(query.approvals) = 1 /\ query.changesRequested = {}
    /\ query.status = "Approved (1/2)" /\ ~query.ready

\* C18: whenever no handler is running for a tracked PR, every label of the
\* record's mirror is on every message the record lists.
C18_MirrorIsOnEveryLocation ==
    \A k \in Keys :
        (cache[k] # Absent /\ ~\E p \in Procs : Busy(p) /\ KeyOf(p) = k)
        => \A label \in Stored(k, "botReactions") :
               \A i \in 1..Len(cache[k].slackMessages) :
                   label \in msgs[cache[k].slackMessages[i].ts].reactions

\* ------------------------------------- one PR, with other users reacting
NextActors ==
    \/ \E p \in Procs : DeliverNext(p)
    \/ \E p \in Procs : \E i \in pending[p] : ReactionAnswered(p, i)
    \/ \E p \in Procs : \E i \in pending[p] : ReactionFailed(p, i)
    \/ \E p \in Procs : \E ch \in pending[p] : PostAnswered(p, ch)
    \/ \E p \in Procs : \E ch \in pending[p] : PostFailed(p, ch)
    \/ \E i \in 1..Len(msgs) : \E label \in Labels : OtherReacts(i, label)

\* A PR is announced and sent two more events.
InitActors ==
    /\ Quiet
    /\ query = Absent
    /\ watched = {}
    /\ \E e1, e2 \in Events(PrTwice) \ ReviewRequested(PrTwice) :
           todo = (prMsgKey(PrTwice) :> <<Announce(PrTwice, {"web"}), e1, e2>>)
                  @@ (prMsgKey(PrOnce) :> <<>>)

SpecActors == InitActors /\ [][NextActors]_vars

\* C19: every label of a stored mirror is one of which the engine issued an add
\* for that PR that every location answered with success or already-applied,
\* whatever other users have placed on the messages; a record just created has
\* an empty mirror.
C19_MirrorHoldsOwnAddsOnly ==
    /\ \A k \in Keys :
           cache[k] # Absent => Stored(k, "botReactions") \subseteq engineAdded[k]
    /\ \A p \in Procs :
           ( /\ pc[p] = "done" /\ IsReviewRequested(ev[p]) /\ prInfo[p] = Absent
             /\ order[p] = delivered /\ cache[KeyOf(p)] # Absent )
           => Stored(KeyOf(p), "botReactions") = {}

\* another user has placed a label on a tracked message, the engine has added a
\* label of its own, and the mirror holds the engine's only
C19_Witness ==
    \E i \in 1..Len(msgs) :
        LET k == msgs[i].key IN
        /\ msgs[i].others # {} /\ msgs[i].reactions # {}
        /\ cache[k] # Absent
        /\ Stored(k, "botReactions") # {}
        /\ Stored(k, "botReactions") \cap msgs[i].others = {}
        /\ \A p \in Procs : ~Busy(p)

\* C20: a review request for an untracked key creates a record only if a post
\* succeeds. When the last post of its announcement is answered, the record
\* stored is exactly the posts that succeeded, with empty approvals,
\* changes-requested and mirror; if none succeeded, or the teams map to no
\* channel, the handler stores nothing and the key stays untracked.
C20_RecordOnlyOfSuccessfulPosts ==
    [][\A p \in Procs :
          /\ ( /\ pc[p] = "posting" /\ pc'[p] = "done" /\ prInfo[p] = Absent )
             => LET k == KeyOf(p)
                    posted == IF Len(msgs') > Len(msgs)
                              THEN {[channel |-> msgs'[Len(msgs')].channel,
                                     ts |-> Len(msgs')]}
                              ELSE {}
                    succeeded == posted \cup {[channel |-> r.channel, ts |-> r.ts] :
                                                r \in {x \in results[p] : x.success}}
                IN IF succeeded = {}
                   THEN cache' = cache
                   ELSE /\ cache'[k] # Absent
                        /\ Range(cache'[k].slackMessages) = succeeded
                        /\ Len(cache'[k].slackMessages) = Cardinality(succeeded)
                        /\ cache'[k].approvals = <<>>
                        /\ cache'[k].changesRequested = <<>>
                        /\ cache'[k].botReactions = <<>>
          /\ ( /\ order'[p] # order[p] /\ IsReviewRequested(ev'[p])
               /\ cache[prMsgKey(ev'[p].pr)] = Absent
               /\ getSlackChannelsByGithubTeams(ev'[p].teams) = <<>> )
             => cache' = cache /\ pc'[p] = "done"]_vars

\* two teams were asked, one of the two posts failed: the record lists the other
C20_Witness ==
    \E p \in Procs :
        /\ pc[p] = "done" /\ IsReviewRequested(ev[p]) /\ prInfo[p] = Absent
        /\ ev[p].teams = Teams /\ faults = 1 /\ order[p] = delivered
        /\ cache[KeyOf(p)] # Absent
        /\ Len(cache[KeyOf(p)].slackMessages) = 1
        /\ Len(msgs) = 1

\* ------------------------------------------------- the cache, over time
InitExpiry ==
    /\ Quiet
    /\ query = Absent
    /\ todo = [k \in Keys |-> <<>>]
    /\ watched = {}

NextExpiry ==
    \/ \E k \in Keys : \E v \in SampleRecords : TimedSet(k, v)
    \/ \E k \in Keys : \E op \in {"get", "has"} : TimedRead(op, k)
    \/ \E k \in Keys : TimedDelete(k)
    \/ Tick

SpecExpiry == InitExpiry /\ [][NextExpiry]_vars

\* the key was written, not deleted since, and read no later than one retention
\* window after its last write
Fresh(read) == read.written >= 0 /\ read.at - read.written <= 259200

\* C21: every set restarts the key's window at 259200 seconds; get returns the
\* record, and has is true, iff the key was written, not deleted since and not
\* left unwritten for longer than the window; reads do not extend it.
C21_WriteRestartsExpiry ==
    /\ \A k \in Keys : lastSet[k] >= 0 => expires[k] = lastSet[k] + 259200
    /\ got # Absent =>
           /\ got.op = "get" => (got.value # Absent <=> Fresh(got))
           /\ got.op = "has" => (got.value.present <=> Fresh(got))

\* a record written twice is still served more than one window after its first
\* write, and the reads in between did not matter
C21_Witness ==
    /\ got # Absent /\ got.op = "get" /\ got.value # Absent
    /\ got.at > 259200
    /\ got.written > 0

\* request p has handled its event on a record it found, and none of its remote
\* calls failed
HandledCleanly(p) ==
    /\ pc[p] = "done" /\ Found(p)
    /\ ~\E entry \in Entries(p) : Failed(entry)

Did(p, kind, label) == \E entry \in Entries(p) : entry.kind = kind /\ entry.label = label

Required(repoFullName) == IF repoFullName \in TWO_APPROVAL_REPOS THEN 2 ELSE 1

\* C22: after an approved review by r handled with every call succeeding, r is
\* in approvals and not in changes-requested; the mirror has approved and has
\* neither commented nor needs-review; ready-to-merge is added and
\* partial-approval removed iff the PR is ReadyToMerge; partial-approval is
\* added iff 0 < |approvals| < required.
C22_ApprovedReview ==
    \A p \in Procs :
        (HandledCleanly(p) /\ IsReview(ev[p], "approved")) =>
            LET info == prInfo[p]
                n == Cardinality(info.approvals)
                ready == info.changesRequested = {} /\ n >= Required(info.repoFullName)
                partial == 0 < n /\ n < Required(info.repoFullName)
            IN /\ ev[p].reviewer \in info.approvals
               /\ ev[p].reviewer \notin info.changesRequested
               /\ APPROVED \in info.botReactions
               /\ COMMENTED \notin info.botReactions
               /\ NEEDS_REVIEW \notin info.botReactions
               /\ ready => (READY_TO_MERGE \in info.botReactions
                            /\ PARTIAL_APPROVAL \notin info.botReactions)
               /\ ~ready => ~Did(p, "add", READY_TO_MERGE)
               /\ partial => PARTIAL_APPROVAL \in info.botReactions
               /\ ~partial => ~Did(p, "add", PARTIAL_APPROVAL)

\* C23: after a changes-requested review by r handled with every call
\* succeeding, r is in changes-requested and not in approvals, every other
\* reviewer is where the handler found them, and the mirror has needs-review
\* and has neither ready-to-merge nor approved.
C23_ChangesRequestedReview ==
    \A p \in Procs :
        (HandledCleanly(p) /\ IsReview(ev[p], "changes_requested")) =>
            LET info == prInfo[p]
                r == ev[p].reviewer
            IN /\ r \in info.changesRequested
               /\ r \notin info.approvals
               /\ info.approvals \ {r} = seen[p].approvals \ {r}
               /\ info.changesRequested \ {r} = seen[p].changesRequested \ {r}
               /\ NEEDS_REVIEW \in info.botReactions
               /\ READY_TO_MERGE \notin info.botReactions
               /\ APPROVED \notin info.botReactions

\* an approver of a ready PR asks for changes
C23_Witness ==
    \E p \in Procs :
        /\ HandledCleanly(p) /\ IsReview(ev[p], "changes_requested")
        /\ ev[p].reviewer \in seen[p].approvals
        /\ READY_TO_MERGE \in seen[p].botReactions
        /\ Entries(p) # {}

\* request p takes the step on which its handler returns
Finishes(p) == Acts(p) /\ pc'[p] = "done"

\* C24: when the handler of a synchronize event on a tracked PR returns, the
\* stored record has no approvals and no change requests, whatever the
\* reaction calls answered; if none of them failed, the mirror has none of
\* approved, ready-to-merge, needs-review, and the locations and the other
\* labels of the mirror are as the handler found them.
C24_SynchronizeResets ==
    [][\A p \in Procs :
        (Finishes(p) /\ IsSynchronize(ev'[p]) /\ prInfo'[p] # Absent) =>
            LET key == prMsgKey(ev'[p].pr)
                info == prInfo'[p]
                reset == {APPROVED, READY_TO_MERGE, NEEDS_REVIEW}
            IN /\ cache'[key] # Absent
               /\ cache'[key].approvals = <<>>
               /\ cache'[key].changesRequested = <<>>
               /\ (~\E entry \in Range(log'[p]) : Failed(entry)) =>
                      /\ NewSet(cache'[key].botReactions) \cap reset = {}
                      /\ NewSet(cache'[key].botReactions) \ reset = seen'[p].botReactions \ reset
                      /\ cache'[key].slackMessages = seen'[p].slackMessages]_vars

\* new commits on a PR that was approved and ready to merge
C24_Witness ==
    \E p \in Procs :
        /\ HandledCleanly(p) /\ IsSynchronize(ev[p])
        /\ seen[p].approvals # {}
        /\ READY_TO_MERGE \in seen[p].botReactions
        /\ cache[KeyOf(p)] # Absent /\ cache[KeyOf(p)].approvals = <<>>

IsClosedAs(e, merged) == IsClosed(e) /\ e.merged = merged

\* the reaction sets of the messages the handler of request p found in the record
OnTracked(p, all) ==
    {all[seen[p].slackMessages[i].ts].reactions : i \in 1..Len(seen[p].slackMessages)}

C26_MergedLeavesApprovedMerged ==
    [][\A p \in Procs :
        ( /\ Finishes(p) /\ IsClosedAs(ev'[p], TRUE) /\ prInfo'[p] # Absent
          /\ ~\E entry \in Range(log'[p]) : Failed(entry) ) =>
            \A i \in 1..Len(seen'[p].slackMessages) :
                msgs'[seen'[p].slackMessages[i].ts].reactions = {APPROVED, MERGED}]_vars

IsInlineComment(e) == e.kind = "pull_request_review_comment"

\* the record the handler of request p read, with `label` in its mirror
SeenWith(p, label) == [seen'[p] EXCEPT !.botReactions = @ \cup {label}]

\* C27: every step of the handler of an inline review comment on a tracked PR
\* leaves the cache alone or stores the record it read with commented added
\* to the mirror, and changes no reaction on any message other than
\* commented; when it returns with no failed call, commented is in the mirror
\* and approvals, change requests, locations and the other labels are as read.
C27_CommentAddsOnlyCommented ==
    [][\A p \in Procs :
        (Acts(p) /\ IsInlineComment(ev'[p]) /\ prInfo'[p] # Absent) =>
            LET key == prMsgKey(ev'[p].pr) IN
            /\ \/ cache' = cache
               \/ cache' = CacheSet(cache, key, SeenWith(p, COMMENTED))
            /\ Len(msgs') = Len(msgs)
            /\ \A i \in 1..Len(msgs) :
                   msgs'[i].reactions \ {COMMENTED} = msgs[i].reactions \ {COMMENTED}
            /\ prInfo'[p] \in {seen'[p], SeenWith(p, COMMENTED)}
            /\ (pc'[p] = "done" /\ ~\E entry \in Range(log'[p]) : Failed(entry)) =>
                   prInfo'[p] = SeenWith(p, COMMENTED)]_vars

\* a comment on an approved PR that had none before
C27_Witness ==
    \E p \in Procs :
        /\ HandledCleanly(p) /\ IsInlineComment(ev[p])
        /\ seen[p].approvals # {} /\ seen[p].botReactions # {}
        /\ COMMENTED \notin seen[p].botReactions
        /\ cache[KeyOf(p)] # Absent
        /\ COMMENTED \in NewSet(cache[KeyOf(p)].botReactions)
        /\ \A on \in OnTracked(p, msgs) : COMMENTED \in on

ChannelsOf(info) == {info.slackMessages[i].channel : i \in 1..Len(info.slackMessages)}

\* the locations of the posts that succeeded for request p, on its last answer
PostedBy(p) ==
    {[channel |-> r.channel, ts |-> r.ts] : r \in {x \in results[p] : x.success}}
    \cup (IF Len(msgs') > Len(msgs)
          THEN {[channel |-> msgs'[Len(msgs')].channel, ts |-> Len(msgs')]}
          ELSE {})

\* C28: a review-requested event for a tracked PR with a channel the record
\* lacks is posted to the lacking channels only; when the handler returns,
\* the record is the one it read with the locations of the successful posts
\* appended, approvals, change requests and mirror as read; when every post
\* failed nothing is stored and the record is as read.
C28_ExtendsTrackedRecord ==
    [][\A p \in Procs :
        LET e == ev'[p]
            key == prMsgKey(e.pr)
        IN /\ ( /\ order'[p] # order[p] /\ IsReviewRequested(e) /\ seen'[p] # Absent
                /\ NewSet(getSlackChannelsByGithubTeams(e.teams)) \ ChannelsOf(seen'[p]) # {} ) =>
                  /\ pc'[p] = "posting"
                  /\ pending'[p] = NewSet(getSlackChannelsByGithubTeams(e.teams))
                                       \ ChannelsOf(seen'[p])
                  /\ cache' = cache
           /\ ( /\ Finishes(p) /\ pc[p] = "posting" /\ seen'[p] # Absent ) =>
                  LET old == seen'[p]
                      info == prInfo'[p]
                      added == SubSeq(info.slackMessages, Len(old.slackMessages) + 1,
                                      Len(info.slackMessages))
                  IN /\ SubSeq(info.slackMessages, 1, Len(old.slackMessages)) = old.slackMessages
                     /\ Range(added) = PostedBy(p)
                     /\ Len(added) = Cardinality(PostedBy(p))
                     /\ \A loc \in Range(added) :
                            /\ loc.channel \notin ChannelsOf(old)
                            /\ msgs'[loc.ts].channel = loc.channel
                            /\ msgs'[loc.ts].key = key
                     /\ info.approvals = old.approvals
                     /\ info.changesRequested = old.changesRequested
                     /\ info.botReactions = old.botReactions
                     /\ IF PostedBy(p) = {}
                        THEN cache' = cache /\ writes'[p] = 0
                        ELSE cache' = CacheSet(cache, key, info)]_vars

\* a PR with a reaction in its mirror is announced to a further channel
C28_Witness ==
    \E p \in Procs :
        /\ pc[p] = "done" /\ IsReviewRequested(ev[p]) /\ seen[p] # Absent
        /\ seen[p].botReactions # {}
        /\ Len(prInfo[p].slackMessages) > Len(seen[p].slackMessages)
        /\ cache[KeyOf(p)] # Absent
        /\ NewSet(cache[KeyOf(p)].botReactions) = seen[p].botReactions
        /\ Len(cache[KeyOf(p)].slackMessages) = Len(prInfo[p].slackMessages)

\* the review request of request p names only channels the record it read has
AllTracked(e, info) ==
    /\ IsReviewRequested(e) /\ info # Absent
    /\ NewSet(getSlackChannelsByGithubTeams(e.teams)) \subseteq ChannelsOf(info)

\* C29: a review-requested event for a tracked PR whose channels are all in
\* the record returns at once: no message is posted, no reaction call is
\* issued, the cache is not written and the record is as it was.
C29_TrackedChannelsNoOp ==
    [][\A p \in Procs :
        (order'[p] # order[p] /\ AllTracked(ev'[p], seen'[p])) =>
            /\ pc'[p] = "done"
            /\ pending'[p] = {} /\ calls'[p] = 0 /\ log'[p] = <<>>
            /\ writes'[p] = 0
            /\ msgs' = msgs
            /\ cache' = cache
            /\ prInfo'[p] = seen'[p]]_vars

\* the team of a tracked channel is asked for a review again
C29_Witness ==
    \E p \in Procs :
        /\ pc[p] = "done" /\ AllTracked(ev[p], seen[p])
        /\ ev[p].teams # {}
        /\ calls[p] = 0 /\ writes[p] = 0
        /\ cache[KeyOf(p)] # Absent
        /\ Len(msgs) = Len(cache[KeyOf(p)].slackMessages)

\* request p starts an add / remove that passed the mirror check
Issues(p) ==
    /\ pc'[p] = "reacting"
    /\ order'[p] # order[p] \/ ops'[p] # ops[p]

\* C30: an add / remove that passes the mirror check sends one call to each
\* tracked location, all of them before any answer; an answer of one location,
\* failure or not, leaves the calls to the others outstanding, and the
\* operation ends with one answer per location.
C30_OneCallPerLocation ==
    [][\A p \in Procs :
        LET locations == 1..Len(prInfo'[p].slackMessages) IN
        /\ Issues(p) =>
               /\ ~Skips(prInfo'[p], Head(ops'[p]))
               /\ pending'[p] = locations /\ results'[p] = {}
               /\ calls'[p] = (IF order'[p] # order[p] THEN 0 ELSE calls[p])
                                  + Len(prInfo'[p].slackMessages)
        /\ (pc[p] = "reacting" /\ pending'[p] # pending[p] /\ ~Issues(p) /\ pc'[p] = "reacting") =>
               /\ \E i \in pending[p] : pending'[p] = pending[p] \ {i}
               /\ Cardinality(results'[p]) = Cardinality(results[p]) + 1
               /\ calls'[p] = calls[p]
        /\ \A n \in 1..Len(log'[p]) :
               prInfo'[p] # Absent =>
                   {r.ts : r \in log'[p][n].results}
                       = {prInfo'[p].slackMessages[i].ts : i \in locations}]_vars

\* an operation on two locations failed at one and was carried out at the other
C30_Witness ==
    \E p \in Procs : \E entry \in Entries(p) :
        /\ Cardinality(entry.results) = 2
        /\ \E r \in entry.results : ~r.success
        /\ \E r \in entry.results : r.answer = "ok"
        /\ \E i \in 1..Len(msgs) :
               entry.kind = "add" /\ entry.label \in msgs[i].reactions

\* C31: after an event on a tracked PR was handled and the record is kept, no
\* remote call having failed so far, a non-empty changes-requested set comes
\* with needs-review in the mirror.
C31_ChangesRequestedDominates ==
    \A p \in Procs :
        ( /\ faults = 0 /\ HandledCleanly(p) /\ ~IsClosed(ev[p])
          /\ prInfo[p].changesRequested # {} ) =>
            NEEDS_REVIEW \in prInfo[p].botReactions

\* no handler is running and no remote call has failed
Settled == faults = 0 /\ \A p \in Procs : ~Busy(p)

\* C32: when no handler is running and no remote call has failed, the mirror
\* of a tracked PR contains partial-approval only if 0 < |approvals| < required.
C32_PartialOnlyWhenPartial ==
    Settled =>
        \A k \in Keys :
            (cache[k] # Absent /\ PARTIAL_APPROVAL \in Stored(k, "botReactions")) =>
                LET n == Cardinality(Stored(k, "approvals"))
                IN 0 < n /\ n < Required(cache[k].repoFullName)

C34_ApprovedIffApprovals ==
    Settled =>
        \A k \in Keys :
            cache[k] # Absent =>
                (APPROVED \in Stored(k, "botReactions") <=> Stored(k, "approvals") # {})

\* C34 (amended): the approved label of the mirror follows the last review
\* event, not the approvals set. When an event was handled with every call
\* succeeding and the record is kept: after an approved review the mirror has
\* approved and approvals is non-empty; after a changes-requested review or a
\* synchronize the mirror has no approved, whoever else still approves; any
\* other event leaves the label and the approvals as the handler read them.
C34_ApprovedFollowsLastReview ==
    \A p \in Procs :
        (HandledCleanly(p) /\ ~IsClosed(ev[p])) =>
            LET info == prInfo[p]
                old == seen[p]
            IN IF IsReview(ev[p], "approved")
               THEN APPROVED \in info.botReactions /\ info.approvals # {}
               ELSE IF IsReview(ev[p], "changes_requested")
               THEN APPROVED \notin info.botReactions
                    /\ info.approvals = old.approvals \ {ev[p].reviewer}
               ELSE IF IsSynchronize(ev[p])
               THEN APPROVED \notin info.botReactions /\ info.approvals = {}
               ELSE /\ APPROVED \in info.botReactions <=> APPROVED \in old.botReactions
                    /\ info.approvals = old.approvals

\* a reviewer asks for changes while the approval of another is outstanding
C34_Witness ==
    \E p \in Procs :
        /\ faults = 0 /\ HandledCleanly(p) /\ IsReview(ev[p], "changes_requested")
        /\ prInfo[p].approvals # {}
        /\ APPROVED \in seen[p].botReactions
        /\ APPROVED \notin prInfo[p].botReactions
        /\ cache[KeyOf(p)] # Absent /\ Stored(KeyOf(p), "approvals") # {}
        /\ APPROVED \notin Stored(KeyOf(p), "botReactions")

\* C35: no announcement is posted to a channel in which the record of the PR
\* already lists a message, and no record lists two locations with the same
\* channel.
C35_OneAnnouncementPerChannel ==
    [][/\ Len(msgs') > Len(msgs) =>
              LET posted == msgs'[Len(msgs')]
              IN cache[posted.key] # Absent =>
                     posted.channel \notin ChannelsOf(cache[posted.key])
       /\ \A k \in Keys :
              cache'[k] # Absent =>
                  Cardinality(ChannelsOf(cache'[k])) = Len(cache'[k].slackMessages)]_vars

Holding(t) == task[t].pc \in {"running", "hung"}

\* C36: every task that runs under a lock eventually returns and releases it,
\* and every task that waits for a lock eventually gets it, also when a remote
\* call never answers.
C36_NoTaskBlocksForever ==
    \A t \in Tasks :
        /\ Holding(t) ~> (task[t].pc = "idle")
        /\ (task[t].pc = "waiting") ~> Holding(t)

\* the promise of fn of task t rejects on this step
Rejects(t) == outcome[t] = "none" /\ outcome'[t] = "rejected"

\* C37: when fn run under withPrLock rejects, the caller gets the rejection and
\* no longer holds the lock; the mutex is free, or has passed to the task that
\* waited longest, which runs; no mutex is ever locked without a running holder.
C37_RejectionReleasesLock ==
    [][/\ \A t \in Tasks :
              Rejects(t) =>
                  LET m == task[t].mutex IN
                  /\ task[t].pc = "running" /\ task'[t].pc = "idle"
                  /\ IF mutexes[m].queue = <<>>
                     THEN ~mutexes'[m].locked
                     ELSE /\ mutexes'[m].locked
                          /\ mutexes'[m].queue = Tail(mutexes[m].queue)
                          /\ task'[Head(mutexes[m].queue)].pc = "running"
       /\ \A m \in 1..Len(mutexes') :
              mutexes'[m].locked =>
                  \E t \in Tasks : task'[t].pc = "running" /\ task'[t].mutex = m]_vars

\* fn of one task rejected; the only mutex has passed on and another task waits
C37_Witness ==
    \E t, u, w \in Tasks :
        /\ outcome[t] = "rejected" /\ task[t].pc = "idle"
        /\ Len(mutexes) = 1
        /\ task[u].pc = "running" /\ outcome[u] = "none"
        /\ task[w].pc = "waiting"

\* C38: a review whose state is commented, on a tracked PR, returns at once:
\* no remote call, no message touched, one cache write, which stores the
\* record as it was read.
C38_CommentedReviewRewrites ==
    [][\A p \in Procs :
        (order'[p] # order[p] /\ IsReview(ev'[p], "commented") /\ seen'[p] # Absent) =>
            LET key == prMsgKey(ev'[p].pr) IN
            /\ pc'[p] = "done"
            /\ pending'[p] = {} /\ calls'[p] = 0 /\ log'[p] = <<>>
            /\ msgs' = msgs
            /\ writes'[p] = 1
            /\ prInfo'[p] = seen'[p]
            /\ cache'[key] # Absent /\ CacheGet(cache', key) = seen'[p]
            /\ \A k \in Keys \ {key} : cache'[k] = cache[k]]_vars

\* a comment review on a PR that has an approval and reactions
C38_Witness ==
    \E p \in Procs :
        /\ pc[p] = "done" /\ Found(p) /\ IsReview(ev[p], "commented")
        /\ writes[p] = 1 /\ calls[p] = 0
        /\ seen[p].approvals # {} /\ seen[p].botReactions # {}
        /\ CacheGet(cache, KeyOf(p)) = seen[p]

\* ------------------------------------------- a record, stored and read back
\* the arrays over S of at most n elements
RECURSIVE ArraysUpTo(_, _)
ArraysUpTo(S, n) ==
    IF n = 0 THEN {<<>>}
    ELSE LET shorter == ArraysUpTo(S, n - 1)
         IN shorter \cup {Append(a, x) : a \in shorter, x \in S}

\* the orders in which the elements of a Set over S can have been inserted
InsertionOrders(S) ==
    {a \in ArraysUpTo(S, Cardinality(S)) : Cardinality(Range(a)) = Len(a)}

\* the records that are given to set: the Set fields by their insertion order
GivenRecords ==
    [slackMessages : ArraysUpTo({[channel |-> c, ts |-> 1] : c \in Channels}, MaxLocations),
     repoFullName : {pr.repoFullName : pr \in PullRequests},
     approvals : InsertionOrders(Reviewers),
     changesRequested : InsertionOrders(Reviewers),
     botReactions : InsertionOrders({APPROVED, NEEDS_REVIEW})]

\* the PrSlackMessage whose Sets were filled in the given orders
Given ==
    [slackMessages |-> query.slackMessages,
     repoFullName |-> query.repoFullName,
     approvals |-> NewSet(query.approvals),
     changesRequested |-> NewSet(query.changesRequested),
     botReactions |-> NewSet(query.botReactions)]

InitRoundTrip ==
    /\ Quiet
    /\ query \in GivenRecords
    /\ todo = [k \in Keys |-> <<>>]
    /\ watched = {}

\* messageCache.set(k, r), once in a behaviour
StoreGiven(k) ==
    /\ \A other \in Keys : cache[other] = Absent
    /\ TimedSet(k, Given)

\* messageCache.get(k), once in a behaviour
ReadBack(k) ==
    /\ got = Absent
    /\ TimedRead("get", k)

NextRoundTrip ==
    \/ \E k \in Keys : StoreGiven(k)
    \/ \E k \in Keys : ReadBack(k)

SpecRoundTrip == InitRoundTrip /\ [][NextRoundTrip]_vars

\* get(k) was called after set(k, r)
ReadAfterStore == got # Absent /\ got.written = clock /\ cache[got.key] # Absent

\* C39: get(k) right after set(k, r) returns a record whose approvals,
\* changes-requested and applied reactions are the sets of r, in whatever order
\* their elements were inserted, and whose message locations and repository
\* name are those of r
C39_RoundTrip ==
    ReadAfterStore =>
        /\ got.value # Absent
        /\ got.value.approvals = Range(query.approvals)
        /\ got.value.changesRequested = Range(query.changesRequested)
        /\ got.value.botReactions = Range(query.botReactions)
        /\ got.value.slackMessages = query.slackMessages
        /\ got.value.repoFullName = query.repoFullName

\* a record with two locations and two elements in each Set, the second
\* approver inserted first, was stored and read back
C39_Witness ==
    /\ ReadAfterStore
    /\ Len(query.slackMessages) = 2
    /\ query.approvals = <<"bob", "alice">>
    /\ Len(query.changesRequested) = 2
    /\ Len(query.botReactions) = 2
    /\ got.value # Absent

\* ------------------------------- single-channel and multi-channel reactions
\* PrSlackMessageCache.set of a single-channel record: the spread keeps channel and ts
StorageValueSingleChannel(value) ==
    [channel |-> value.channel,
     ts |-> value.ts,
     repoFullName |-> value.repoFullName,
     approvals |-> ArrayFrom(value.approvals),
     changesRequested |-> ArrayFrom(value.changesRequested),
     botReactions |-> ArrayFrom(value.botReactions)]

\* the call made for one message location
ReactionCall(kind, channel, ts, name) ==
    [method |-> kind, channel |-> channel, timestamp |-> ts, name |-> name]

\* (mutant) already_reacted is handled like any other error
addSlackReactionSingleChannelUnsynced(prInfo_, reactionEmoji, answer, stored, redisKey) ==
    IF reactionEmoji \in prInfo_.botReactions
    THEN [calls |-> <<>>, prInfo |-> prInfo_, stored |-> stored]
    ELSE LET call == ReactionCall("add", prInfo_.channel, prInfo_.ts, reactionEmoji)
             next == [prInfo_ EXCEPT !.botReactions = @ \cup {reactionEmoji}]
         IN IF answer = "ok"
            THEN [calls |-> <<call>>, prInfo |-> next,
                  stored |-> StorageValueSingleChannel(next)]
            ELSE [calls |-> <<call>>, prInfo |-> prInfo_, stored |-> stored]

\* addSlackReaction of the single-channel variant, the remote call answering `answer`
addSlackReactionSingleChannel(prInfo_, reactionEmoji, answer, stored, redisKey) ==
    IF reactionEmoji \in prInfo_.botReactions
    THEN [calls |-> <<>>, prInfo |-> prInfo_, stored |-> stored]
    ELSE LET call == ReactionCall("add", prInfo_.channel, prInfo_.ts, reactionEmoji)
             next == [prInfo_ EXCEPT !.botReactions = @ \cup {reactionEmoji}]
         IN IF answer = "ok"
            THEN [calls |-> <<call>>, prInfo |-> next,
                  stored |-> StorageValueSingleChannel(next)]
            ELSE IF answer = "already_reacted"
            THEN [calls |-> <<call>>, prInfo |-> next,
                  stored |-> StorageValueSingleChannel(next)]
            ELSE [calls |-> <<call>>, prInfo |-> prInfo_, stored |-> stored]

\* removeSlackReaction of the single-channel variant
removeSlackReactionSingleChannel(prInfo_, reactionEmoji, answer, stored, redisKey) ==
    IF reactionEmoji \notin prInfo_.botReactions
    THEN [calls |-> <<>>, prInfo |-> prInfo_, stored |-> stored]
    ELSE LET call == ReactionCall("remove", prInfo_.channel, prInfo_.ts, reactionEmoji)
             next == [prInfo_ EXCEPT !.botReactions = @ \ {reactionEmoji}]
         IN IF answer = "ok"
            THEN [calls |-> <<call>>, prInfo |-> next,
                  stored |-> StorageValueSingleChannel(next)]
            ELSE IF answer = "not_reacted"
            THEN [calls |-> <<call>>, prInfo |-> next,
                  stored |-> StorageValueSingleChannel(next)]
            ELSE [calls |-> <<call>>, prInfo |-> prInfo_, stored |-> stored]

\* addSlackReaction / removeSlackReaction of the multi-channel variant, every
\* location's call answering `answer`
SlackReactionMultiChannel(info, op, answer, c, key) ==
    IF Skips(info, op)
    THEN [calls |-> <<>>, prInfo |-> info, stored |-> c[key]]
    ELSE LET locs == info.slackMessages
             res == {Result(op.kind, answer, locs[i].channel, locs[i].ts) :
                         i \in 1..Len(locs)}
             s == Settle(info, op, res, c, key)
         IN [calls |-> [i \in 1..Len(locs) |->
                           ReactionCall(op.kind, locs[i].channel, locs[i].ts, op.label)],
             prInfo |-> s.prInfo, stored |-> s.cache[key]]

\* a single-channel record as the multi-channel record of one location
AsOneLocation(single) ==
    [slackMessages |-> <<[channel |-> single.channel, ts |-> single.ts]>>,
     repoFullName |-> single.repoFullName,
     approvals |-> single.approvals,
     changesRequested |-> single.changesRequested,
     botReactions |-> single.botReactions]

\* what the remote call can answer
Answers == {"ok", "already_reacted", "not_reacted", "error"}

\* the single-channel records, the operation and the answer that are compared
VariantInputs ==
    [pr : PullRequests,
     channel : Channels,
     approvals : {{}, {"alice"}},
     changesRequested : {{}, {"bob"}},
     botReactions : SUBSET {APPROVED, NEEDS_REVIEW, COMMENTED},
     kind : {"add", "remove"},
     label : {APPROVED, NEEDS_REVIEW, COMMENTED},
     answer : Answers,
     tracked : BOOLEAN]

\* the single-channel record of an input
RecordOf(in) ==
    [channel |-> in.channel, ts |-> 1, repoFullName |-> in.pr.repoFullName,
     approvals |-> in.approvals, changesRequested |-> in.changesRequested,
     botReactions |-> in.botReactions]

InitVariants ==
    /\ Quiet
    /\ \E in \in VariantInputs : query = [in |-> in, single |-> Absent, multi |-> Absent]
    /\ todo = [k \in Keys |-> <<>>]
    /\ watched = {}

\* the single-channel variant runs on the input
RunSingleChannel ==
    /\ query.single = Absent
    /\ LET in == query.in
           r == RecordOf(in)
           stored == IF in.tracked THEN StorageValueSingleChannel(r) ELSE Absent
       IN query' = [query EXCEPT !.single =
              IF in.kind = "add"
              THEN addSlackReactionSingleChannel(r, in.label, in.answer, stored,
                                                 prMsgKey(in.pr))
              ELSE removeSlackReactionSingleChannel(r, in.label, in.answer, stored,
                                                    prMsgKey(in.pr))]
    /\ UNCHANGED <<engine, locks, mutexes, task, outcome, timing>>

\* the multi-channel variant runs on the same input, as a record of one location
RunMultiChannel ==
    /\ query.multi = Absent
    /\ LET in == query.in
           r == AsOneLocation(RecordOf(in))
           key == prMsgKey(in.pr)
           c == IF in.tracked THEN CacheSet(cache, key, r) ELSE cache
       IN query' = [query EXCEPT !.multi =
              SlackReactionMultiChannel(r, Op(in.kind, in.label), in.answer, c, key)]
    /\ UNCHANGED <<engine, locks, mutexes, task, outcome, timing>>

NextVariants == RunSingleChannel \/ RunMultiChannel

SpecVariants == InitVariants /\ [][NextVariants]_vars

\* a stored single-channel record as a stored record of one location
StoredAsOneLocation(s) ==
    IF s = Absent THEN Absent
    ELSE [slackMessages |-> <<[channel |-> s.channel, ts |-> s.ts]>>,
          repoFullName |-> s.repoFullName,
          approvals |-> s.approvals,
          changesRequested |-> s.changesRequested,
          botReactions |-> s.botReactions]

BothRan == query.single # Absent /\ query.multi # Absent

\* C40: on a record of one location the multi-channel addSlackReaction /
\* removeSlackReaction issue the same remote call as the single-channel ones and
\* leave the same mirror and the same stored record, for every mirror and
\* every answer of the remote call
C40_OneLocationAsSingleChannel ==
    BothRan =>
        /\ query.multi.calls = query.single.calls
        /\ query.multi.prInfo = AsOneLocation(query.single.prInfo)
        /\ query.multi.stored = StoredAsOneLocation(query.single.stored)

\* both variants called Slack, were answered already_reacted, and stored the
\* record with the reaction in its mirror
C40_Witness ==
    /\ BothRan
    /\ query.in.kind = "add" /\ query.in.answer = "already_reacted"
    /\ Len(query.single.calls) = 1 /\ Len(query.multi.calls) = 1
    /\ query.in.label \in query.multi.prInfo.botReactions
    /\ query.in.label \notin query.in.botReactions
    /\ query.multi.stored # Absent

====
